---- MODULE Spec2Model ----
(***************************************************************************)
(* A model of mlens/parallel/estimation.py: the layer orchestrator          *)
(* (BaseEstimator.fit / predict / transform), the four job functions, the   *)
(* artifact cache they share and the dependency wait (_load_trans).         *)
(*                                                                          *)
(* Three specifications share the module.  SpecWait runs one fit_est job's  *)
(* _load_trans against a concurrent fit_trans on a clock.  Spec runs the    *)
(* orchestrator's calls over a layer descriptor drawn from bounded sets.    *)
(* SpecFn runs one call of a function over arguments from bounded sets.     *)
(***************************************************************************)
EXTENDS Integers, Sequences, FiniteSets, TLC

(***************************************************************************)
(* Bounds of the dependency-wait model.                                     *)
(***************************************************************************)
\* the wait interval s = ivals[0] ranges over 1..MaxIval
MaxIval == 2
\* the limit lim = ivals[1] ranges over 1..MaxLim
MaxLim == 4
\* a sleep(s) lasts s..s+MaxJitter ticks (sleep returns no sooner than asked)
MaxJitter == 1
\* fit_trans spends 0..MaxWrite ticks inside pickle_save
MaxWrite == 1

(***************************************************************************)
(* Bounds of the layer model.                                               *)
(***************************************************************************)
\* folds of a stacked layer
NFolds == 2
\* rows of one test fold
FoldRows == 2
\* estimators of a layer, over all its cases
MaxEsts == 2
\* columns of one prediction: 1 is predict's vector, more is predict_proba
MaxWidth == 2
\* rows by which y may be longer than X in fit
MaxYExtra == 1
\* ranges of a non-contiguous index spec
MaxRanges == 2
\* fit_est jobs of one dispatch that wait for the same transformer file
NWaiters == 2

\* names a user may give to cases and to estimators
CaseNames == {<<"a">>, <<"a", "_">>}

EstNames == {<<"b">>, <<"_", "b">>}

\* the latest tick at which the producer starts to write: past every deadline
MaxT == 2 * MaxLim + MaxIval + MaxJitter + 1

VARIABLES
    \* ---- dependency wait (SpecWait) ----
    wcfg,       \* the run's inputs: [s, lim, raise0, t0, t1]
    now,        \* the clock read by time_()
    file,       \* the cache file {case}__t: "absent" | "partial" | "complete"
    cpc,        \* the consumer's position in _load_trans
    ts,         \* _load_trans' local ts
    raise_,     \* _load_trans' local raise_on_exception
    warnings,   \* ParallelProcessingWarnings emitted by the consumer
    warnedAt,   \* history: the clock when the warning was emitted
    \* ---- layer orchestrator (Spec) ----
    desc,       \* the layer descriptor the estimator was constructed with
    layer,      \* the layer's fitted attributes
    call,       \* the call in progress: "idle", "fit", "predict", "transform"
    round,      \* the dispatch of the call: "trans", "est", "comb", "full", "fold"
    jobs,       \* the jobs handed to parallel(...) in this dispatch
    jst,        \* per job: "pending", "done" or the exception it raised
    P,          \* the prediction matrix: per cell <<>> or what was written
    wlog,       \* history: <<row, col, job>> for every write of this dispatch
    cache,      \* the cache directory: file name -> [n, data]
    result,     \* the last call: [op, exc], exc "ok" or the exception raised
    \* ---- one call of a function (SpecFn) ----
    arg,        \* the function called and its arguments
    ret         \* what the call returned, <<>> before it has

wvars == <<wcfg, now, file, cpc, ts, raise_, warnings, warnedAt>>

lvars == <<desc, layer, call, round, jobs, jst, P, wlog, cache, result>>

fvars == <<arg, ret>>

vars == <<wcfg, now, file, cpc, ts, raise_, warnings, warnedAt,
          desc, layer, call, round, jobs, jst, P, wlog, cache, result,
          arg, ret>>

(***************************************************************************)
(* Strings.  A name is a sequence of one-character strings, so that the     *)
(* '%s__%s' formatting of file names and score keys, and str.split, are     *)
(* computed character by character.                                         *)
(***************************************************************************)
Sep2 == <<"_", "_">>

Sep3 == <<"_", "_", "_">>

\* the case None of a layer without preprocessing
NoneCase == <<"None">>

\* '%s' % case
Str(case) == IF case = NoneCase THEN <<"N", "o", "n", "e">> ELSE case

Digits == <<"0", "1", "2", "3", "4", "5", "6", "7", "8", "9">>

\* '%i' % i for one digit
Digit(i) == Digits[i + 1]

RECURSIVE Flatten(_)
Flatten(ss) == IF ss = <<>> THEN <<>> ELSE Head(ss) \o Flatten(Tail(ss))

\* s[i:].startswith(sep), i counted from 1
StartsWithAt(s, i, sep) ==
    /\ i + Len(sep) - 1 <= Len(s)
    /\ SubSeq(s, i, i + Len(sep) - 1) = sep

\* sep in s
Contains(s, sep) == \E i \in 1..Len(s) : StartsWithAt(s, i, sep)

\* s.split(sep): leftmost, non-overlapping separators
RECURSIVE SplitFrom(_, _, _, _)
SplitFrom(s, sep, i, cur) ==
    IF i > Len(s) THEN <<cur>>
    ELSE IF StartsWithAt(s, i, sep)
         THEN <<cur>> \o SplitFrom(s, sep, i + Len(sep), <<>>)
         ELSE SplitFrom(s, sep, i + 1, Append(cur, s[i]))

Split(s, sep) == SplitFrom(s, sep, 1, <<>>)

\* sep.join(parts)
RECURSIVE Join(_, _)
Join(parts, sep) ==
    IF parts = <<>> THEN <<>>
    ELSE IF Len(parts) = 1 THEN parts[1]
    ELSE parts[1] \o sep \o Join(Tail(parts), sep)

\* os.path.join(dir, '%s__t' % case), fit_trans line 444 and _assemble line 362
TransFile(case) == Str(case) \o Sep2 \o <<"t">>

\* os.path.join(dir, '%s__%s__e' % (case, inst_name)), fit_est line 506 and
\* _assemble line 371
EstFile(case, inst_name) == Str(case) \o Sep2 \o inst_name \o Sep2 \o <<"e">>

(***************************************************************************)
(* Index specs and the array slicer.  A spec is None, one (start, end)      *)
(* range, or a list of ranges.  X is the sequence of its row numbers and y  *)
(* the sequence of its labels, so a slice shows which rows it took.         *)
(***************************************************************************)
IdxNone == [kind |-> "none", rs |-> <<>>]

IdxRange(a, b) == [kind |-> "range", rs |-> <<<<a, b>>>>]

IdxList(rs) == [kind |-> "list", rs |-> rs]

\* np.arange(a, b)
Arange(a, b) == [i \in 1..(IF b > a THEN b - a ELSE 0) |-> a + i - 1]

\* x[idx] for an index array idx
Take(x, idx) == [i \in 1..Len(idx) |-> x[idx[i] + 1]]

\* _slice_array taking only the first range of a list of ranges
SliceArrayFirstRange(x, y, idx) ==
    LET ix == IF idx.kind = "none" THEN <<>>
              ELSE Arange(idx.rs[1][1], idx.rs[1][2])
    IN  [x   |-> IF idx.kind = "none" THEN x ELSE Take(x, ix),
         y   |-> IF y = <<>> THEN <<>>
                 ELSE IF idx.kind = "none" THEN y ELSE Take(y, ix),
         idx |-> ix]

\* _slice_array(x, y, idx); y = <<>> stands for y = None
SliceArray(x, y, idx) ==
    LET ix == IF idx.kind = "list"
              THEN Flatten([k \in 1..Len(idx.rs) |->
                                Arange(idx.rs[k][1], idx.rs[k][2])])
              ELSE IF idx.kind = "range"
                   THEN Arange(idx.rs[1][1], idx.rs[1][2])
                   ELSE <<>>
    IN  [x   |-> IF idx.kind = "none" THEN x ELSE Take(x, ix),
         y   |-> IF y = <<>> THEN <<>>
                 ELSE IF idx.kind = "none" THEN y ELSE Take(y, ix),
         idx |-> ix]

(***************************************************************************)
(* The layer descriptor and what the subclass builds from it.  The          *)
(* descriptor d holds: prep (the layer has preprocessing), cases and, per   *)
(* case, ests (estimator names), cls ("full", "stack" or "blend"), dual,    *)
(* width, scorer ("none", "ok" or "raises") and yExtra.                     *)
(***************************************************************************)
\* X.shape[0] in fit and transform
NX == NFolds * FoldRows

\* P.shape[0]: a blend layer predicts only the rows after its first split
NP(d) == IF d.cls = "blend" THEN NX - FoldRows ELSE NX

\* the fold index pairs of the layer's indexer
FoldPairs(d) ==
    IF d.cls = "stack"
    THEN [i \in 1..NFolds |->
            LET lo == (i - 1) * FoldRows
                hi == i * FoldRows
            IN  [tri |-> IF lo = 0 THEN IdxRange(hi, NX)
                         ELSE IF hi = NX THEN IdxRange(0, lo)
                         ELSE IdxList(<<<<0, lo>>, <<hi, NX>>>>),
                 tei |-> IdxRange(lo, hi)]]
    ELSE IF d.cls = "blend"
         THEN <<[tri |-> IdxRange(0, FoldRows), tei |-> IdxRange(FoldRows, NX)]>>
         ELSE <<>>

\* '%s__%i' % (name, i): the name of a fold's clone
FoldName(nm, i) == nm \o Sep2 \o <<Digit(i)>>

FoldCase(case, i) == IF case = NoneCase THEN NoneCase ELSE FoldName(case, i)

\* the estimators of case k that come before its j-th, over the whole layer
EstPos(d, k, j) ==
    LET RECURSIVE Before(_)
        Before(m) == IF m = 0 THEN 0 ELSE Len(d.ests[m]) + Before(m - 1)
    IN  Before(k - 1) + j - 1

\* layer.n_pred: the estimators fitted on the full data
NPred(d) == EstPos(d, Len(d.cases) + 1, 1)

\* layer.n_prep: the pipelines fitted on the full data
NPrep(d) == IF d.prep THEN Len(d.cases) ELSE 0

\* _format_instance_list, self.e: (case, tri, tei, instance_list) for the
\* full fits, then for every fold of every case
InstanceListE(d) ==
    LET full == [k \in 1..Len(d.cases) |->
                    [case |-> d.cases[k], tri |-> IdxNone, tei |-> IdxNone,
                     insts |-> [j \in 1..Len(d.ests[k]) |->
                                   [name |-> d.ests[k][j], obj |-> <<k, j, 0>>]]]]
        fp == FoldPairs(d)
        fold == [n \in 1..(Len(d.cases) * Len(fp)) |->
                    LET k == ((n - 1) \div Len(fp)) + 1
                        i == ((n - 1) % Len(fp)) + 1
                    IN  [case |-> FoldCase(d.cases[k], i - 1),
                         tri |-> fp[i].tri, tei |-> fp[i].tei,
                         insts |-> [j \in 1..Len(d.ests[k]) |->
                                       [name |-> FoldName(d.ests[k][j], i - 1),
                                        obj |-> <<k, j, i>>]]]]
    IN  full \o fold

\* _format_instance_list, self.t: None (here <<>> with d.prep false) or
\* (case, tri, None, pipeline) for the full fits, then for every fold
InstanceListT(d) ==
    LET full == [k \in 1..Len(d.cases) |->
                    [case |-> d.cases[k], tri |-> IdxNone, tei |-> IdxNone,
                     insts |-> <<k, 0>>]]
        fp == FoldPairs(d)
        fold == [n \in 1..(Len(d.cases) * Len(fp)) |->
                    LET k == ((n - 1) \div Len(fp)) + 1
                        i == ((n - 1) % Len(fp)) + 1
                    IN  [case |-> FoldCase(d.cases[k], i - 1),
                         tri |-> fp[i].tri, tei |-> IdxNone,
                         insts |-> <<k, i>>]]
    IN  IF d.prep THEN full \o fold ELSE <<>>

\* _get_col_id, self.c: the block start of every (case, inst_name); a fold's
\* clone gets the column of the estimator it was cloned from
ColIds(d, e) ==
        UNION { { [case |-> e[n].case, name |-> e[n].insts[j].name,
                   col |-> d.width * EstPos(d, e[n].insts[j].obj[1], j)]
                  : j \in 1..Len(e[n].insts) } : n \in 1..Len(e) }

\* self.c[case, inst_name]
ColLookup(d, case, inst_name) ==
    LET hit == { r \in d.c : r.case = case /\ r.name = inst_name }
    IN  (CHOOSE r \in hit : TRUE).col

\* P.shape[1]
NCols(d) == d.width * NPred(d)

\* the layers of the model: without preprocessing one case None, with it one
\* or two named cases; at most MaxEsts estimators in all
\* a layer with the cases 'a' and 'a__0__', the first with the estimator
\* '__0__b', the second with 'b'
FoldClash ==
    [cases |-> <<<<"a">>, <<"a", "_", "_", "0", "_", "_">>>>,
     ests  |-> <<<< <<"_", "_", "0", "_", "_", "b">> >>, << <<"b">> >>>>]

EstLists(n) ==
    { q \in UNION { [1..m -> EstNames] : m \in 0..n } :
        \A i, j \in 1..Len(q) : i # j => q[i] # q[j] }

Layers ==
    LET one(cs) == { [cases |-> <<c>>, ests |-> <<q>>] :
                        c \in cs, q \in EstLists(MaxEsts) }
        two == { [cases |-> <<c1, c2>>, ests |-> <<q1, q2>>] :
                    c1 \in CaseNames, c2 \in CaseNames,
                    q1 \in EstLists(MaxEsts), q2 \in EstLists(MaxEsts) }
    IN  [prep : {FALSE}, shape : one({NoneCase})]
          \cup [prep : {TRUE},
                shape : one(CaseNames) \cup
                        { t \in two : /\ t.cases[1] # t.cases[2]
                                      /\ Len(t.ests[1]) + Len(t.ests[2]) <= MaxEsts }
                        \cup {FoldClash}]

Settings ==
    { [prep |-> l.prep, cases |-> l.shape.cases, ests |-> l.shape.ests,
       cls |-> c, dual |-> du, width |-> w, scorer |-> sc, yExtra |-> ye] :
        l \in Layers, c \in {"full", "stack", "blend"}, du \in BOOLEAN,
        w \in 1..MaxWidth, sc \in {"none", "ok", "raises"}, ye \in 0..MaxYExtra }

\* BaseEstimator.__init__, lines 71-87: the layer's settings, and self.e,
\* self.t and self.c computed from them once
Construct(d, e) ==
    [prep |-> d.prep, cases |-> d.cases, ests |-> d.ests, cls |-> d.cls,
     dual |-> d.dual, width |-> d.width, scorer |-> d.scorer,
     yExtra |-> d.yExtra, e |-> e, t |-> InstanceListT(d), c |-> ColIds(d, e)]

Descriptors == { Construct(d, InstanceListE(d)) : d \in Settings }

\* an estimator of a layer without estimators
NoLayer ==
    Construct([prep |-> FALSE, cases |-> <<>>, ests |-> <<>>, cls |-> "full",
               dual |-> TRUE, width |-> 1, scorer |-> "none", yExtra |-> 0],
              <<>>)

(***************************************************************************)
(* The artifact cache of one fit call.                                      *)
(***************************************************************************)
EmptyCache == [f \in {} |-> 0]

\* pickle_save(obj, f) of a job that runs to its end: the file holds obj, and
\* n counts the saves the file has seen
PickleSave(c, f, obj) ==
    [g \in (DOMAIN c) \cup {f} |->
        IF g = f
        THEN [n |-> (IF f \in DOMAIN c THEN c[f].n ELSE 0) + 1, data |-> obj]
        ELSE c[g]]

InCache(c, f) == f \in DOMAIN c

(***************************************************************************)
(* The data of a call.  X is its row numbers; y its labels, here each       *)
(* label's position in the y the caller passed.                             *)
(***************************************************************************)
XFit == Arange(0, NX)

YGiven(d) == Arange(0, NX + d.yExtra)

\* fit lines 151-157 with the rows of the other end dropped
RealignTail(X, y) ==
    IF Len(y) > Len(X) THEN SubSeq(y, 1, Len(X)) ELSE y

\* fit lines 151-157: y = y[rebase:] when y has more rows than X
Realign(X, y) ==
    IF Len(y) > Len(X)
    THEN LET rebase == Len(y) - Len(X) IN SubSeq(y, rebase + 1, Len(y))
    ELSE y

\* scores: None, or a number
NoScore == [none |-> TRUE, v |-> 0]

Score(v) == [none |-> FALSE, v |-> v]

\* the scorer's value for a fold's predictions (any number will do; folds
\* get different ones)
ScorerValue(obj) == obj[3]

(***************************************************************************)
(* The job lists fit() hands to parallel(...).  A job is the function and   *)
(* the keyword arguments bound to it; kw is the set of keywords passed.     *)
(***************************************************************************)
FitTransKw == {"dir", "case", "inst", "X", "y", "idx", "name"}

FitEstKw == {"dir", "case", "inst_name", "inst", "X", "y", "pred", "idx",
             "name", "raise_on_exception", "preprocess", "ivals", "attr",
             "scorer"}

\* the keywords of the combined loop, fit lines 188-201: no attr
CombinedKw == {"dir", "case", "inst_name", "inst", "X", "y", "pred", "idx",
               "name", "raise_on_exception", "preprocess", "ivals", "scorer"}

\* the parameters of fit_est without a default, line 448
FitEstRequired == FitEstKw \ {"scorer"}

\* f.__code__.co_varnames of fit_trans and fit_est: parameters and locals
FitTransVarnames == FitTransKw \cup {"x", "_", "out", "tr_name", "tr", "f"}

FitEstVarnames == FitEstKw \cup {"x", "z", "_", "f", "tr_list", "tr_name",
                                 "tr", "tei", "col", "p", "rebase", "cols", "s"}

TransName == <<"__trans__">>

\* fit lines 161-168 with no fit_trans job dispatched
TransJobsNone(d, y) == <<>>

\* fit lines 161-168
TransJobs(d, y) ==
    LET t == d.t
    IN  [n \in 1..Len(t) |->
            [fn |-> "fit_trans", kw |-> FitTransKw, case |-> t[n].case,
             inst_name |-> TransName, inst |-> t[n].insts, y |-> y,
             tri |-> t[n].tri, tei |-> IdxNone, col |-> 0, pred |-> FALSE]]

\* the (entry, instance) pairs of a folded list, in the order of the two
\* nested for clauses
Pairs(e) ==
    Flatten([n \in 1..Len(e) |-> [j \in 1..Len(e[n].insts) |-> <<n, j>>]])

\* fit lines 170-185
EstJobs(d, y) ==
    LET e == d.e
        q == Pairs(e)
    IN  [m \in 1..Len(q) |->
            LET n == q[m][1]
                j == q[m][2]
            IN  [fn |-> "fit_est", kw |-> FitEstKw, case |-> e[n].case,
                 inst_name |-> e[n].insts[j].name, inst |-> e[n].insts[j].obj,
                 y |-> y, tri |-> e[n].tri, tei |-> e[n].tei,
                 col |-> ColLookup(d, e[n].case, e[n].insts[j].name),
                 pred |-> e[n].tei.kind # "none"]]

\* _wrap taking None for an empty list
WrapOfNoneIsEmpty(d) == FALSE

\* _wrap(self.t), lines 322-323, raises TypeError when self.t is None: the
\* comprehension iterates over folded_list
WrapRaises(d) == ~d.prep

\* fit lines 188-203 over self.e alone, without the wrapped transformers
CombinedJobsEstOnly(d, y) ==
    LET e == EstJobs(d, y)
    IN  [m \in 1..Len(e) |-> [e[m] EXCEPT !.fn = "_fit", !.kw = CombinedKw]]

\* _wrap(self.t), lines 314-323, then fit lines 188-203
CombinedJobs(d, y) ==
    LET t == d.t
        w == [n \in 1..Len(t) |->
                [fn |-> "_fit", kw |-> CombinedKw, case |-> t[n].case,
                 inst_name |-> TransName, inst |-> t[n].insts, y |-> y,
                 tri |-> t[n].tri, tei |-> IdxNone, col |-> 0, pred |-> FALSE]]
        e == EstJobs(d, y)
    IN  w \o [m \in 1..Len(e) |-> [e[m] EXCEPT !.fn = "_fit", !.kw = CombinedKw]]

(***************************************************************************)
(* The job functions.  Each returns what the job does when it runs to its   *)
(* end: err ("" or the exception), the matrix and the cells written, and    *)
(* the file saved.                                                          *)
(***************************************************************************)
\* the cells of pred[rows, col:col+w], or <<>> where numpy raises IndexError;
\* a negative row counts from the end
Cells(rows, col, w, nrows, ncols) ==
    LET norm(r) == IF r < 0 THEN r + nrows ELSE r
        ok == /\ \A i \in 1..Len(rows) : norm(rows[i]) \in 0..(nrows - 1)
              /\ col >= 0 /\ col + w <= ncols
    IN  IF ok
        THEN [hit |-> TRUE,
              at  |-> [i \in 1..Len(rows) |-> norm(rows[i])]]
        ELSE [hit |-> FALSE, at |-> <<>>]

\* pred[rows, col:col+w] = p, p the prediction of est for the data rows x
WriteP(m, rows, col, w, est, x) ==
    [rc \in DOMAIN m |->
        IF /\ \E i \in 1..Len(rows) : rows[i] = rc[1]
           /\ rc[2] \in col..(col + w - 1)
        THEN LET i == CHOOSE i \in 1..Len(rows) :
                        /\ rows[i] = rc[1]
                        /\ \A i2 \in 1..Len(rows) : rows[i2] = rc[1] => i2 <= i
             IN  <<est, x[i], rc[2] - col>>
        ELSE m[rc]]

\* lines 486-487 with the predictions written from the top of the matrix
\* instead of at the fold's test rows
FitEstRowsHead(tei, nx, np) == Arange(0, Len(tei))

\* lines 486-487: rebase = X.shape[0] - pred.shape[0]; tei -= rebase
FitEstRows(tei, nx, np) == [i \in 1..Len(tei) |-> tei[i] - (nx - np)]

\* fit_trans, lines 429-445
FitTrans(job, X) ==
    LET sl == SliceArray(X, job.y, job.tri)
        out == <<[tr |-> job.inst, case |-> job.case, x |-> sl.x, y |-> sl.y]>>
    IN  [err |-> "", file |-> TransFile(job.case), data |-> out]

\* lines 502-507 with a score kept for a job that predicted nothing
FullFitArtifactScored(job, fitted) ==
    [name |-> job.inst_name, inst |-> fitted,
     idx |-> [tei |-> IdxNone, col |-> job.col],
     s |-> Score(ScorerValue(job.inst))]

\* lines 502-507: idx = (None, idx[2]); s = None; the tuple saved
FullFitArtifact(job, fitted) ==
    [name |-> job.inst_name, inst |-> fitted,
     idx |-> [tei |-> IdxNone, col |-> job.col],
     s |-> NoScore]

\* fit_est, lines 448-507, given the transformer list _load_trans returned
FitEst(d, job, X, m, tr_list) ==
    LET sl == SliceArray(X, job.y, job.tri)
        fitted == [obj |-> job.inst, x |-> sl.x, y |-> sl.y, tr |-> tr_list]
        te == SliceArray(X, job.y, job.tei)
        rows == FitEstRows(te.idx, Len(X), NP(d))
        cells == Cells(rows, job.col, d.width, NP(d), NCols(d))
        s == IF d.scorer = "ok" THEN Score(ScorerValue(job.inst)) ELSE NoScore
        f == EstFile(job.case, job.inst_name)
    IN  IF job.tei.kind # "none"
        THEN IF ~cells.hit THEN [err |-> "IndexError"]
             ELSE [err |-> "", m |-> WriteP(m, cells.at, job.col, d.width,
                                            job.inst, te.x),
                   rows |-> cells.at, file |-> f,
                   data |-> [name |-> job.inst_name, inst |-> fitted,
                             idx |-> [tei |-> job.tei, col |-> job.col],
                             s |-> s]]
        ELSE [err |-> "", m |-> m, rows |-> <<>>, file |-> f,
              data |-> FullFitArtifact(job, fitted)]

(***************************************************************************)
(* Reassembly: _assemble and _build_scores.                                 *)
(***************************************************************************)
\* _assemble(dir, self.t, 't'), lines 357-363; none stands for None
AssembleT(d, c) ==
    LET t == d.t
    IN  IF ~d.prep THEN [none |-> TRUE, v |-> <<>>]
        ELSE [none |-> FALSE,
              v |-> [n \in 1..Len(t) |->
                        [case |-> t[n].case, tr |-> c[TransFile(t[n].case)].data]]]

\* _assemble(dir, self.e, 'e'), lines 364-380: the estimators and the scores
AssembleE(d, c) ==
    LET e == d.e
        q == Pairs(e)
        load(m) == c[EstFile(e[q[m][1]].case, e[q[m][1]].insts[q[m][2]].name)].data
    IN  [ests |-> [m \in 1..Len(q) |->
                      [case |-> e[q[m][1]].case, name |-> load(m).name,
                       inst |-> load(m).inst, idx |-> load(m).idx]],
         scores |-> [m \in 1..Len(q) |->
                      [k |-> (IF e[q[m][1]].case = NoneCase THEN Sep3
                              ELSE e[q[m][1]].case \o Sep3)
                             \o e[q[m][1]].insts[q[m][2]].name,
                       v |-> load(m).s]]]

\* every file reassembly loads is in the cache
AssembleFilesThere(d, c) ==
    LET e == d.e
        t == d.t
    IN  /\ \A n \in 1..Len(t) : InCache(c, TransFile(t[n].case))
        /\ \A n \in 1..Len(e) : \A j \in 1..Len(e[n].insts) :
               InCache(c, EstFile(e[n].case, e[n].insts[j].name))

\* lines 111-119: the shell dictionary of the first n_pred entries
RECURSIVE ScoresShell(_, _, _)
ScoresShell(s, i, acc) ==
    IF i > Len(s) THEN [err |-> "", scores |-> acc]
    ELSE LET parts == Split(s[i].k, Sep3)
             name == IF parts[1] = <<>> THEN parts[2]
                     ELSE parts[1] \o Sep2 \o parts[2]
         IN  IF Len(parts) # 2 THEN [err |-> "ValueError", scores |-> acc]
             ELSE ScoresShell(s, i + 1,
                              [n \in (DOMAIN acc) \cup {name} |-> <<>>])

\* lines 122-133: the fold scores appended under the stripped names
RECURSIVE ScoresFolds(_, _, _)
ScoresFolds(s, i, acc) ==
    IF i > Len(s) THEN [err |-> "", scores |-> acc]
    ELSE LET parts == Split(s[i].k, Sep3)
             bits == Split(parts[2], Sep2)
             est_name == Join(SubSeq(bits, 1, Len(bits) - 1), Sep2)
             name == IF ~Contains(parts[1], Sep2) THEN est_name
                     ELSE Split(parts[1], Sep2)[1] \o Sep2 \o est_name
         IN  IF Len(parts) # 2 THEN [err |-> "ValueError", scores |-> acc]
             ELSE IF name \notin DOMAIN acc
                  THEN [err |-> "KeyError", scores |-> acc]
             ELSE ScoresFolds(s, i + 1,
                              [acc EXCEPT ![name] = Append(@, s[i].v)])

RECURSIVE SumOf(_)
SumOf(v) == IF v = <<>> THEN 0 ELSE Head(v).v + SumOf(Tail(v))

RECURSIVE SumSqOf(_)
SumSqOf(v) == IF v = <<>> THEN 0 ELSE Head(v).v * Head(v).v + SumSqOf(Tail(v))

\* (np.mean(v), np.std(v)) as the count, sum and sum of squares they are
\* computed from; numpy raises TypeError on a list that holds None
MeanStd(v) ==
    IF \E i \in 1..Len(v) : v[i].none
    THEN [err |-> "TypeError"]
    ELSE [err |-> "", n |-> Len(v), sum |-> SumOf(v), sumsq |-> SumSqOf(v)]

\* lines 122-133 after lines 111-119: an exception of the first loop ends
\* the function
ScoresFoldsAfter(s, shell) ==
    IF shell.err # "" THEN shell ELSE ScoresFolds(s, 1, shell.scores)

\* lines 135-137: every list replaced by its mean and deviation
ScoresMeans(folds) ==
    IF folds.err # "" THEN [err |-> folds.err]
    ELSE IF \E k \in DOMAIN folds.scores : MeanStd(folds.scores[k]).err # ""
         THEN [err |-> "TypeError"]
    ELSE [err |-> "",
          scores |-> [k \in DOMAIN folds.scores |-> MeanStd(folds.scores[k])]]

\* _build_scores, lines 106-139
BuildScores(d, s) ==
    LET n == IF NPred(d) < Len(s) THEN NPred(d) ELSE Len(s)
    IN  ScoresMeans(ScoresFoldsAfter(
            SubSeq(s, n + 1, Len(s)),
            ScoresShell(SubSeq(s, 1, n), 1, [x \in {} |-> <<>>])))

\* BaseEstimator._assemble, lines 98-104: the layer after reassembly and the
\* exception, if any, that ends it
StoreScores(set, b) ==
    IF b.err # "" THEN [err |-> b.err, layer |-> set]
    ELSE [err |-> "",
          layer |-> [set EXCEPT !.scores_ = [set |-> TRUE, v |-> b.scores]]]

StoreAssembled(d, old, t, a) ==
    LET set == [old EXCEPT !.fitted = TRUE,
                           !.preprocessing_ = t,
                           !.estimators_ = a.ests]
    IN  IF d.scorer # "none" /\ d.cls # "full"
        THEN StoreScores(set, BuildScores(d, a.scores))
        ELSE [err |-> "", layer |-> set]

AssembleLayer(d, c, old) ==
    IF ~AssembleFilesThere(d, c)
    THEN [err |-> "OSError", layer |-> old]
    ELSE StoreAssembled(d, old, AssembleT(d, c), AssembleE(d, c))

(***************************************************************************)
(* predict and transform.                                                   *)
(***************************************************************************)
\* _check_fitted without the test for an empty list
CheckFittedNoLen(l) == l.fitted

\* _check_fitted, lines 270-276: passes when estimators_ is set and not empty
CheckFitted(l) == l.fitted /\ Len(l.estimators_) # 0

\* dict(pairs): the last pair of a key wins
DictOf(pairs) ==
    [k \in { pairs[i].case : i \in 1..Len(pairs) } |->
        LET i == CHOOSE i \in 1..Len(pairs) :
                    /\ pairs[i].case = k
                    /\ \A i2 \in 1..Len(pairs) : pairs[i2].case = k => i2 <= i
        IN  pairs[i].tr]

\* a[lo:hi] of a list, bounds counted as Python counts them
Slice(a, lo, hi) ==
    LET h == IF hi > Len(a) THEN Len(a) ELSE hi
    IN  IF lo >= h THEN <<>> ELSE SubSeq(a, lo + 1, h)

Max(a, b) == IF a > b THEN a ELSE b

\* _retrieve with the two slices of the estimators overlapping
RetrieveOverlap(d, l, s) ==
    LET n_pred == NPred(d)
        n_prep == Max(NPrep(d), 1)
        ests == IF s = "full" THEN Slice(l.estimators_, 0, n_pred + 1)
                ELSE Slice(l.estimators_, n_pred, Len(l.estimators_))
        pre == IF s = "full" THEN Slice(l.preprocessing_.v, 0, n_prep)
               ELSE Slice(l.preprocessing_.v, n_prep, Len(l.preprocessing_.v))
    IN  [none |-> l.preprocessing_.none, prep |-> DictOf(pre), ests |-> ests]

\* _retrieve, lines 278-310
Retrieve(d, l, s) ==
    LET n_pred == NPred(d)
        n_prep == Max(NPrep(d), 1)
        ests == IF s = "full" THEN Slice(l.estimators_, 0, n_pred)
                ELSE Slice(l.estimators_, n_pred, Len(l.estimators_))
        pre == IF s = "full" THEN Slice(l.preprocessing_.v, 0, n_prep)
               ELSE Slice(l.preprocessing_.v, n_prep, Len(l.preprocessing_.v))
    IN  [none |-> l.preprocessing_.none, prep |-> DictOf(pre), ests |-> ests]

\* the generator of predict, lines 226-236, and of transform, lines 255-265:
\* a job per retrieved estimator; prep[case] raises KeyError for a case the
\* dictionary lacks
PredictJobs(r, fn) ==
    IF ~r.none /\ \E i \in 1..Len(r.ests) : r.ests[i].case \notin DOMAIN r.prep
    THEN [err |-> "KeyError", jobs |-> <<>>]
    ELSE [err |-> "",
          jobs |-> [i \in 1..Len(r.ests) |->
                      [fn |-> fn, case |-> r.ests[i].case,
                       tr_list |-> IF r.none THEN <<>> ELSE r.prep[r.ests[i].case],
                       inst_name |-> r.ests[i].name, est |-> r.ests[i].inst,
                       tei |-> r.ests[i].idx.tei, col |-> r.ests[i].idx.col]]]

\* xtest of predict: new data, as many rows as the matrix it fills
XPredict(d) == Arange(0, NP(d))

\* predict_est, lines 384-399
PredictEst(d, job, xtest, m) ==
    LET rows == Arange(0, NP(d))
        cells == Cells(rows, job.col, d.width, NP(d), NCols(d))
    IN  IF Len(xtest) # NP(d) THEN [err |-> "ValueError"]
        ELSE IF ~cells.hit THEN [err |-> "IndexError"]
        ELSE [err |-> "", rows |-> cells.at,
              m |-> WriteP(m, cells.at, job.col, d.width, job.est.obj, xtest)]

\* lines 419-420 without the rebase: the held-out indices used as they are
PredictFoldRowsAsGiven(tei, nx, np) == tei

\* lines 419-420: rebase = xtest.shape[0] - pred.shape[0]; tei -= rebase
PredictFoldRows(tei, nx, np) == [i \in 1..Len(tei) |-> tei[i] - (nx - np)]

\* predict_fold_est, lines 402-426; tei is the index array after line 420
PredictFoldEst(d, job, xtest, m) ==
    LET sl == SliceArray(xtest, <<>>, job.tei)
        rows == PredictFoldRows(sl.idx, Len(xtest), NP(d))
        cells == Cells(rows, job.col, d.width, NP(d), NCols(d))
    IN  IF job.tei.kind = "none" THEN [err |-> "TypeError"]
        ELSE IF ~cells.hit THEN [err |-> "IndexError", tei |-> rows]
        ELSE [err |-> "", rows |-> cells.at, tei |-> rows,
              m |-> WriteP(m, cells.at, job.col, d.width, job.est.obj, sl.x)]

(***************************************************************************)
(* The orchestrator.  A call runs from its start to the return of           *)
(* parallel(...) in steps: the call itself, every job of a dispatch (in     *)
(* any order), and the return or the exception that ends the dispatch.      *)
(***************************************************************************)
Unfitted ==
    [fitted |-> FALSE, preprocessing_ |-> [none |-> TRUE, v |-> <<>>],
     estimators_ |-> <<>>, scores_ |-> [set |-> FALSE, v |-> <<>>]]

BlankP(d) == [rc \in (0..(NP(d) - 1)) \X (0..(NCols(d) - 1)) |-> <<>>]

Pending(js) == [i \in 1..Len(js) |-> "pending"]

AllDone == \A i \in 1..Len(jst) : jst[i] = "done"

WroteCells(i, rows, col, w) ==
    { <<rows[k], c, i>> : k \in 1..Len(rows), c \in col..(col + w - 1) }

\* BaseEstimator.fit, lines 141-203, up to its first parallel(...)
FitCall ==
    /\ cpc = "off"
    /\ call = "idle"
    /\ LET y == Realign(XFit, YGiven(desc)) IN
         IF desc.dual
         THEN /\ call' = "fit"
              /\ round' = IF desc.prep THEN "trans" ELSE "est"
              /\ jobs' = IF desc.prep THEN TransJobs(desc, y) ELSE EstJobs(desc, y)
              /\ result' = [op |-> "fit", exc |-> "running"]
         ELSE IF WrapRaises(desc)
              THEN \* the generator's first iterable is evaluated before
                   \* parallel(...) is called: no job exists yet
                   /\ call' = "idle"
                   /\ round' = "none"
                   /\ jobs' = <<>>
                   /\ result' = [op |-> "fit", exc |-> "TypeError"]
              ELSE /\ call' = "fit"
                   /\ round' = "comb"
                   /\ jobs' = CombinedJobs(desc, y)
                   /\ result' = [op |-> "fit", exc |-> "running"]
    /\ jst' = Pending(jobs')
    /\ P' = BlankP(desc)
    /\ wlog' = {}
    /\ cache' = EmptyCache
    /\ UNCHANGED <<desc, layer, wvars, fvars>>

\* a job ends with an exception, which parallel(...) raises to the caller
\* of the call
JobRaises(i, exc) ==
    /\ call' = "idle"
    /\ result' = [op |-> call, exc |-> exc]
    /\ jobs' = <<>>
    /\ jst' = <<>>
    /\ UNCHANGED <<P, wlog, cache>>

\* a job returns
JobReturns(i) ==
    /\ jst' = [jst EXCEPT ![i] = "done"]
    /\ UNCHANGED <<call, jobs, result>>

\* fit_trans runs to its end
DoFitTrans(i) ==
    LET r == FitTrans(jobs[i], XFit) IN
        /\ cache' = PickleSave(cache, r.file, r.data)
        /\ JobReturns(i)
        /\ UNCHANGED <<P, wlog>>

\* a job that writes predictions ends: with its exception, or with its
\* block of P written
WriteEnds(i, r) ==
    IF r.err # "" THEN JobRaises(i, r.err)
    ELSE /\ P' = r.m
         /\ wlog' = wlog \cup WroteCells(i, r.rows, jobs[i].col, desc.width)
         /\ JobReturns(i)
         /\ UNCHANGED cache

FitEstEnds(i, r) ==
    IF r.err # "" THEN JobRaises(i, r.err)
    ELSE /\ P' = r.m
         /\ wlog' = wlog \cup WroteCells(i, r.rows, jobs[i].col, desc.width)
         /\ cache' = PickleSave(cache, r.file, r.data)
         /\ JobReturns(i)

\* fit_est runs to its end; with preprocessing it first waits in _load_trans
\* for its case's file (the wait itself is SpecWait's)
DoFitEst(i) ==
    /\ desc.prep => InCache(cache, TransFile(jobs[i].case))
    /\ LET tr_list == IF desc.prep THEN cache[TransFile(jobs[i].case)].data
                      ELSE <<>>
       IN  FitEstEnds(i, FitEst(desc, jobs[i], XFit, P, tr_list))

Runnable(i) ==
    /\ cpc = "off"
    /\ call # "idle"
    /\ jst[i] = "pending"

RunFitTrans(i) ==
    /\ Runnable(i)
    /\ jobs[i].fn = "fit_trans"
    /\ DoFitTrans(i)
    /\ UNCHANGED <<desc, layer, round, wvars, fvars>>

RunFitEst(i) ==
    /\ Runnable(i)
    /\ jobs[i].fn = "fit_est"
    /\ DoFitEst(i)
    /\ UNCHANGED <<desc, layer, round, wvars, fvars>>

\* _fit, lines 510-513: pick the function by the instance name and call it
\* with the keywords its code object names
RunFit(i) ==
    /\ Runnable(i)
    /\ jobs[i].fn = "_fit"
    /\ IF jobs[i].inst_name = TransName
       THEN IF FitTransKw \subseteq (jobs[i].kw \cap FitTransVarnames)
            THEN DoFitTrans(i)
            ELSE JobRaises(i, "TypeError")
       ELSE IF FitEstRequired \subseteq (jobs[i].kw \cap FitEstVarnames)
            THEN DoFitEst(i)
            ELSE JobRaises(i, "TypeError")
    /\ UNCHANGED <<desc, layer, round, wvars, fvars>>

\* fit, lines 161-170: the first parallel(...) of dual mode returns and the
\* second is entered
FitSecondRound ==
    /\ cpc = "off"
    /\ call = "fit"
    /\ round = "trans"
    /\ AllDone
    /\ round' = "est"
    /\ jobs' = EstJobs(desc, Realign(XFit, YGiven(desc)))
    /\ jst' = Pending(jobs')
    /\ UNCHANGED <<desc, layer, call, P, wlog, cache, result, wvars, fvars>>

\* fit ends as reassembly does
FitEnds(a) ==
    /\ layer' = a.layer
    /\ result' = [op |-> "fit", exc |-> IF a.err = "" THEN "ok" ELSE a.err]

\* fit, lines 205-207: the last parallel(...) returns and the layer is
\* reassembled from the cache
FitAssemble ==
    /\ cpc = "off"
    /\ call = "fit"
    /\ round \in {"est", "comb"}
    /\ AllDone
    /\ FitEnds(AssembleLayer(desc, cache, layer))
    /\ call' = "idle"
    /\ jobs' = <<>>
    /\ jst' = <<>>
    /\ UNCHANGED <<desc, round, P, wlog, cache, wvars, fvars>>

\* predict (s = "full") and transform (s = "fold") up to parallel(...)
StartPredict(op, s, fn) ==
    /\ cpc = "off"
    /\ call = "idle"
    /\ IF ~CheckFitted(layer)
       THEN /\ result' = [op |-> op, exc |-> "NotFittedError"]
            /\ UNCHANGED <<call, round, jobs, jst, wlog>>
       ELSE LET g == PredictJobs(Retrieve(desc, layer, s), fn) IN
              IF g.err # ""
              THEN /\ result' = [op |-> op, exc |-> g.err]
                   /\ UNCHANGED <<call, round, jobs, jst, wlog>>
              ELSE /\ call' = op
                   /\ round' = s
                   /\ jobs' = g.jobs
                   /\ jst' = Pending(g.jobs)
                   /\ wlog' = {}
                   /\ result' = [op |-> op, exc |-> "running"]
    /\ UNCHANGED <<desc, layer, P, cache, wvars, fvars>>

\* BaseEstimator.predict, lines 212-236
PredictCall == StartPredict("predict", "full", "predict_est")

\* BaseEstimator.transform, lines 241-265
TransformCall == StartPredict("transform", "fold", "predict_fold_est")

RunPredictEst(i) ==
    /\ Runnable(i)
    /\ jobs[i].fn = "predict_est"
    /\ WriteEnds(i, PredictEst(desc, jobs[i], XPredict(desc), P))
    /\ UNCHANGED <<desc, layer, round, wvars, fvars>>

RunPredictFoldEst(i) ==
    /\ Runnable(i)
    /\ jobs[i].fn = "predict_fold_est"
    /\ WriteEnds(i, PredictFoldEst(desc, jobs[i], XFit, P))
    /\ UNCHANGED <<desc, layer, round, wvars, fvars>>

\* predict and transform return when their parallel(...) does
PredictReturns ==
    /\ cpc = "off"
    /\ call \in {"predict", "transform"}
    /\ AllDone
    /\ call' = "idle"
    /\ result' = [op |-> call, exc |-> "ok"]
    /\ jobs' = <<>>
    /\ jst' = <<>>
    /\ UNCHANGED <<desc, layer, round, P, wlog, cache, wvars, fvars>>

\* no function call under way
FnOff ==
    /\ arg = [fn |-> "none"]
    /\ ret = <<>>

WaitOff ==
    /\ wcfg = [s |-> 1, lim |-> 1, raise0 |-> TRUE, t0 |-> 0, t1 |-> 0]
    /\ now = 0
    /\ file = "absent"
    /\ cpc = "off"
    /\ ts = 0
    /\ raise_ = TRUE
    /\ warnings = 0
    /\ warnedAt = 0

Init ==
    /\ desc \in Descriptors
    /\ layer = Unfitted
    /\ call = "idle"
    /\ round = "none"
    /\ jobs = <<>>
    /\ jst = <<>>
    /\ P = BlankP(desc)
    /\ wlog = {}
    /\ cache = EmptyCache
    /\ result = [op |-> "none", exc |-> "none"]
    /\ WaitOff
    /\ FnOff

Next ==
    \/ FitCall
    \/ \E i \in 1..Len(jobs) : RunFitTrans(i)
    \/ \E i \in 1..Len(jobs) : RunFitEst(i)
    \/ \E i \in 1..Len(jobs) : RunFit(i)
    \/ FitSecondRound
    \/ FitAssemble
    \/ PredictCall
    \/ TransformCall
    \/ \E i \in 1..Len(jobs) : RunPredictEst(i)
    \/ \E i \in 1..Len(jobs) : RunPredictFoldEst(i)
    \/ PredictReturns

Spec == Init /\ [][Next]_vars

(***************************************************************************)
(* The cache file as the writer leaves it.  pickle_save takes time: it      *)
(* creates the file and the payload is in it when it returns.  A reader     *)
(* racing with it finds the file absent, present but incomplete, or         *)
(* complete.                                                                *)
(***************************************************************************)
PickleSaveOpen(f) == IF f = "absent" THEN "partial" ELSE f

PickleSaveClose(f) == "complete"

\* os.path.exists(dir): true from the moment the file is created
PathExists(f) == f # "absent"

\* pickle_load(dir), its possible outcomes: the payload of a complete file,
\* OSError/IOError when there is no file; of an incomplete file never a
\* payload but a failure, the not-found one or an unpickling error
PickleLoad(f) ==
    CASE f = "complete" -> {"payload"}
      [] f = "partial"  -> {"OSError", "EOFError"}
      [] OTHER          -> {"OSError"}

(***************************************************************************)
(* fit_trans, as the producer of {case}__t: it reaches pickle_save at tick  *)
(* t0 and returns from it at tick t1.                                       *)
(***************************************************************************)
ProducerDue ==
    \/ file = "absent" /\ now >= wcfg.t0
    \/ file = "partial" /\ now >= wcfg.t1

FitTransOpen ==
    /\ cpc # "off"
    /\ file = "absent"
    /\ now >= wcfg.t0
    /\ file' = PickleSaveOpen(file)
    /\ UNCHANGED <<wcfg, now, cpc, ts, raise_, warnings, warnedAt, lvars, fvars>>

FitTransClose ==
    /\ cpc # "off"
    /\ file = "partial"
    /\ now >= wcfg.t1
    /\ file' = PickleSaveClose(file)
    /\ UNCHANGED <<wcfg, now, cpc, ts, raise_, warnings, warnedAt, lvars, fvars>>

(***************************************************************************)
(* _load_trans, one step per statement that reads the clock or the file.    *)
(* Only sleep lets time pass.                                               *)
(***************************************************************************)
\* line 542: the limit is breached
LimFail(t, t_s, lim) == t - t_s > lim

\* line 555: the clock is reset on the first breach
WarnResetMissing(t, t_s) == t_s

WarnReset(t, t_s) == t

\* line 554: the policy after the first breach
EscalateMissing(r) == r

Escalate(r) == TRUE

\* lines 521-537: try the load; on OSError/IOError start the clock
LoadTransTry ==
    /\ cpc = "try"
    /\ ~ProducerDue
    /\ \E r \in PickleLoad(file) :
         /\ cpc' = CASE r = "payload" -> "ready"
                     [] r = "OSError" -> "loop"
                     [] OTHER         -> "corrupt"
         /\ ts' = IF r = "OSError" THEN now ELSE ts
    /\ UNCHANGED <<wcfg, now, file, raise_, warnings, warnedAt, lvars, fvars>>

\* line 538: while not os.path.exists(dir)
LoadTransLoop ==
    /\ cpc = "loop"
    /\ ~ProducerDue
    /\ cpc' = IF PathExists(file) THEN "load" ELSE "sleep"
    /\ UNCHANGED <<wcfg, now, file, ts, raise_, warnings, warnedAt, lvars, fvars>>

\* line 540: sleep(s)
LoadTransSleep ==
    /\ cpc = "sleep"
    /\ \E j \in 0..MaxJitter : now' = now + wcfg.s + j
    /\ cpc' = "check"
    /\ UNCHANGED <<wcfg, file, ts, raise_, warnings, warnedAt, lvars, fvars>>

\* lines 542-555: the limit check after the sleep
LoadTransCheck ==
    /\ cpc = "check"
    /\ IF LimFail(now, ts, wcfg.lim)
       THEN IF raise_
            THEN /\ cpc' = "timedout"
                 /\ UNCHANGED <<ts, raise_, warnings, warnedAt>>
            ELSE /\ warnings' = warnings + 1
                 /\ warnedAt' = now
                 /\ raise_' = Escalate(raise_)
                 /\ ts' = WarnReset(now, ts)
                 /\ cpc' = "loop"
       ELSE /\ cpc' = "loop"
            /\ UNCHANGED <<ts, raise_, warnings, warnedAt>>
    /\ UNCHANGED <<wcfg, now, file, lvars, fvars>>

\* line 557: the load after the loop
LoadTransLoad ==
    /\ cpc = "load"
    /\ ~ProducerDue
    /\ \E r \in PickleLoad(file) :
         cpc' = IF r = "payload" THEN "ready" ELSE "corrupt"
    /\ UNCHANGED <<wcfg, now, file, ts, raise_, warnings, warnedAt, lvars, fvars>>

WaitCfgs ==
    { c \in [s : 1..MaxIval, lim : 1..MaxLim, raise0 : BOOLEAN,
             t0 : 0..MaxT, t1 : 0..(MaxT + MaxWrite)] :
        c.t0 <= c.t1 /\ c.t1 <= c.t0 + MaxWrite }

InitWait ==
    /\ wcfg \in WaitCfgs
    /\ now = 0
    /\ file = "absent"
    /\ cpc = "try"
    /\ ts = 0
    /\ raise_ = wcfg.raise0
    /\ warnings = 0
    /\ warnedAt = 0
    /\ desc = NoLayer
    /\ layer = Unfitted
    /\ call = "idle"
    /\ round = "none"
    /\ jobs = <<>>
    /\ jst = <<>>
    /\ P = BlankP(desc)
    /\ wlog = {}
    /\ cache = EmptyCache
    /\ result = [op |-> "none", exc |-> "none"]
    /\ FnOff

NextWait ==
    \/ FitTransOpen
    \/ FitTransClose
    \/ LoadTransTry
    \/ LoadTransLoop
    \/ LoadTransSleep
    \/ LoadTransCheck
    \/ LoadTransLoad

SpecWait == InitWait /\ [][NextWait]_vars

WaitDone == cpc \in {"ready", "timedout", "corrupt"}

\* the longest one polling cycle (a sleep and the statements around it) lasts
SleepMax == wcfg.s + MaxJitter

(***************************************************************************)
(* Several fit_est jobs of one dispatch waiting in _load_trans for the      *)
(* same transformer file (SpecJobs).  Each job has the frame of its own     *)
(* call: jobs[j] holds its position pc, its locals ts and raise_ (the       *)
(* parameter raise_on_exception, bound to self.raise_ when fit builds the   *)
(* job at line 179), the tick its sleep ends and the warnings it gave.      *)
(* wcfg.raise0 is the layer's setting self.raise_.  Time is counted from    *)
(* the first job's load attempt; the engine starts the other jobs at any    *)
(* time.  When a job has raised, the engine may abort the dispatch (its     *)
(* fail-fast policy), which ends fit with the exception and stops the jobs  *)
(* that have not ended.                                                     *)
(***************************************************************************)
Frame(r) == [pc |-> "queued", ts |-> 0, raise_ |-> r, wake |-> 0, warnings |-> 0]

JobEnded(fr) == fr.pc \in {"ready", "timedout", "corrupt", "cancelled"}

\* lines 548-555 with line 554 rebinding a setting that all jobs share
EscalateShared(frs, j) ==
    [k \in DOMAIN frs |->
        IF k = j
        THEN [frs[j] EXCEPT !.warnings = @ + 1,
                            !.raise_ = Escalate(frs[j].raise_),
                            !.ts = WarnReset(now, frs[j].ts),
                            !.pc = "loop"]
        ELSE [frs[k] EXCEPT !.raise_ = Escalate(frs[j].raise_)]]

\* lines 548-555 in job j: warn, raise_on_exception = True, ts = time_();
\* both names are locals of the job's own call
EscalateLocal(frs, j) ==
    [frs EXCEPT ![j] = [@ EXCEPT !.warnings = @ + 1,
                                 !.raise_ = Escalate(frs[j].raise_),
                                 !.ts = WarnReset(now, frs[j].ts),
                                 !.pc = "loop"]]

JobRuns(j) ==
    /\ cpc = "jobs"
    /\ call = "fit"
    /\ j \in 1..Len(jobs)

\* the engine starts the job: fit_est runs up to line 461
JobStart(j) ==
    /\ JobRuns(j)
    /\ jobs[j].pc = "queued"
    /\ jobs' = [jobs EXCEPT ![j].pc = "try"]
    /\ UNCHANGED <<wvars, desc, layer, call, round, jst, P, wlog, cache, result, fvars>>

\* lines 521-537
JobTry(j) ==
    /\ JobRuns(j)
    /\ jobs[j].pc = "try"
    /\ ~ProducerDue
    /\ \E r \in PickleLoad(file) :
         jobs' = [jobs EXCEPT ![j].pc = CASE r = "payload" -> "ready"
                                          [] r = "OSError" -> "loop"
                                          [] OTHER         -> "corrupt",
                              ![j].ts = IF r = "OSError" THEN now ELSE @]
    /\ UNCHANGED <<wvars, desc, layer, call, round, jst, P, wlog, cache, result, fvars>>

\* line 538
JobLoop(j) ==
    /\ JobRuns(j)
    /\ jobs[j].pc = "loop"
    /\ ~ProducerDue
    /\ jobs' = [jobs EXCEPT ![j].pc = IF PathExists(file) THEN "load" ELSE "sleep"]
    /\ UNCHANGED <<wvars, desc, layer, call, round, jst, P, wlog, cache, result, fvars>>

\* line 540: sleep(s) begins
JobSleep(j) ==
    /\ JobRuns(j)
    /\ jobs[j].pc = "sleep"
    /\ \E d \in 0..MaxJitter :
         jobs' = [jobs EXCEPT ![j].pc = "asleep", ![j].wake = now + wcfg.s + d]
    /\ UNCHANGED <<wvars, desc, layer, call, round, jst, P, wlog, cache, result, fvars>>

\* line 540: sleep(s) returns
JobWake(j) ==
    /\ JobRuns(j)
    /\ jobs[j].pc = "asleep"
    /\ now >= jobs[j].wake
    /\ jobs' = [jobs EXCEPT ![j].pc = "check", ![j].wake = 0]
    /\ UNCHANGED <<wvars, desc, layer, call, round, jst, P, wlog, cache, result, fvars>>

\* lines 542-555
JobCheck(j) ==
    /\ JobRuns(j)
    /\ jobs[j].pc = "check"
    /\ jobs' = IF ~LimFail(now, jobs[j].ts, wcfg.lim)
               THEN [jobs EXCEPT ![j].pc = "loop"]
               ELSE IF jobs[j].raise_
                    THEN [jobs EXCEPT ![j].pc = "timedout"]
                    ELSE EscalateLocal(jobs, j)
    /\ UNCHANGED <<wvars, desc, layer, call, round, jst, P, wlog, cache, result, fvars>>

\* line 557
JobLoad(j) ==
    /\ JobRuns(j)
    /\ jobs[j].pc = "load"
    /\ ~ProducerDue
    /\ \E r \in PickleLoad(file) :
         jobs' = [jobs EXCEPT ![j].pc = IF r = "payload" THEN "ready" ELSE "corrupt"]
    /\ UNCHANGED <<wvars, desc, layer, call, round, jst, P, wlog, cache, result, fvars>>

\* time passes when no statement is due: the producer's, or a job's between
\* two sleeps
Tick ==
    /\ cpc = "jobs"
    /\ call = "fit"
    /\ now < MaxT
    /\ ~ProducerDue
    /\ \A j \in 1..Len(jobs) :
          /\ jobs[j].pc \notin {"try", "loop", "sleep", "check", "load"}
          /\ jobs[j].pc = "asleep" => now < jobs[j].wake
    /\ now' = now + 1
    /\ UNCHANGED <<wcfg, file, cpc, ts, raise_, warnings, warnedAt, lvars, fvars>>

\* parallel(...) raises the exception of a job that failed: fit ends with it
\* and the jobs that have not ended are stopped
EngineRaises ==
    /\ cpc = "jobs"
    /\ call = "fit"
    /\ \E j \in 1..Len(jobs) : jobs[j].pc \in {"timedout", "corrupt"}
    /\ jobs' = [j \in 1..Len(jobs) |->
                  IF JobEnded(jobs[j]) THEN jobs[j]
                  ELSE [jobs[j] EXCEPT !.pc = "cancelled"]]
    /\ call' = "idle"
    /\ result' = [op |-> "fit",
                  exc |-> IF \E j \in 1..Len(jobs) : jobs[j].pc = "timedout"
                          THEN "ParallelProcessingError" ELSE "EOFError"]
    /\ UNCHANGED <<wvars, desc, layer, round, jst, P, wlog, cache, fvars>>

\* parallel(...) returns when every job has got its transformers
EngineReturns ==
    /\ cpc = "jobs"
    /\ call = "fit"
    /\ \A j \in 1..Len(jobs) : jobs[j].pc = "ready"
    /\ call' = "idle"
    /\ result' = [op |-> "fit", exc |-> "ok"]
    /\ UNCHANGED <<wvars, desc, layer, round, jobs, jst, P, wlog, cache, fvars>>

InitJobs ==
    /\ wcfg \in WaitCfgs
    /\ now = 0
    /\ file = "absent"
    /\ cpc = "jobs"
    /\ ts = 0
    /\ raise_ = wcfg.raise0
    /\ warnings = 0
    /\ warnedAt = 0
    /\ desc = NoLayer
    /\ layer = Unfitted
    /\ call = "fit"
    /\ round = "comb"
    /\ jobs = [j \in 1..NWaiters |->
                  IF j = 1 THEN [Frame(wcfg.raise0) EXCEPT !.pc = "try"]
                  ELSE Frame(wcfg.raise0)]
    /\ jst = <<>>
    /\ P = BlankP(desc)
    /\ wlog = {}
    /\ cache = EmptyCache
    /\ result = [op |-> "fit", exc |-> "running"]
    /\ FnOff

NextJobs ==
    \/ FitTransOpen
    \/ FitTransClose
    \/ Tick
    \/ EngineRaises
    \/ EngineReturns
    \/ \E j \in 1..NWaiters :
          \/ JobStart(j)
          \/ JobTry(j)
          \/ JobLoop(j)
          \/ JobSleep(j)
          \/ JobWake(j)
          \/ JobCheck(j)
          \/ JobLoad(j)

SpecJobs == InitJobs /\ [][NextJobs]_vars

(***************************************************************************)
(* One call of a function on its own: _slice_array on an array, labels and  *)
(* an index spec as the indexer gives them, and predict_fold_est on an      *)
(* array of any row count.  The rows of the arrays are numbered from a      *)
(* base, so that a row's value differs from its index.                      *)
(***************************************************************************)
\* an array of n rows
RowsFrom(base, n) == [i \in 1..n |-> base + i - 1]

\* the ordered lists of at most n ranges within 0..hi that start at lo
RECURSIVE RangeLists(_, _, _)
RangeLists(lo, hi, n) ==
    IF n = 0 THEN {<<>>}
    ELSE {<<>>} \cup
         UNION { { <<<<a, b>>>> \o rest : rest \in RangeLists(b, hi, n - 1) } :
                    <<a, b>> \in { ab \in (lo..hi) \X (lo..hi) : ab[1] <= ab[2] } }

\* the index specs of the indexer: None, a (start, end) range, or an ordered
\* list of ranges
IndexSpecs(n) ==
    {IdxNone}
      \cup { IdxRange(ab[1], ab[2]) : ab \in { q \in (0..n) \X (0..n) : q[1] <= q[2] } }
      \cup { IdxList(rs) : rs \in RangeLists(0, n, MaxRanges) \ {<<>>} }

SliceArgs ==
    { [fn |-> "_slice_array", x |-> RowsFrom(10, NX), y |-> y, idx |-> ix] :
        y \in {<<>>, RowsFrom(20, NX)}, ix \in IndexSpecs(NX) }

\* the layers predict_fold_est is called for here: one estimator, folds
FoldLayers ==
    { d \in Descriptors : /\ d.cls # "full"
                          /\ ~d.prep /\ d.dual
                          /\ d.scorer = "none" /\ d.yExtra = 0
                          /\ d.ests = << << <<"b">> >> >> }

\* xtest of 1 to NX + 1 rows and a held-out range of it
FoldArgs ==
    { [fn |-> "predict_fold_est", d |-> q[1], xtest |-> RowsFrom(10, q[2]),
       job |-> [fn |-> "predict_fold_est", case |-> NoneCase, tr_list |-> <<>>,
                inst_name |-> FoldName(<<"b">>, 0), est |-> [obj |-> <<1, 1, 1>>],
                tei |-> IdxRange(q[3], q[4]), col |-> 0]] :
        q \in { r \in FoldLayers \X (1..(NX + 1)) \X (0..NX) \X (1..(NX + 1)) :
                    r[3] < r[4] /\ r[4] <= r[2] } }

CallSliceArray ==
    /\ arg.fn = "_slice_array"
    /\ ret = <<>>
    /\ ret' = SliceArray(arg.x, arg.y, arg.idx)
    /\ UNCHANGED <<arg, wvars, lvars>>

CallPredictFoldEst ==
    /\ arg.fn = "predict_fold_est"
    /\ ret = <<>>
    /\ ret' = PredictFoldEst(arg.d, arg.job, arg.xtest, BlankP(arg.d))
    /\ UNCHANGED <<arg, wvars, lvars>>

InitFn ==
    /\ arg \in SliceArgs \cup FoldArgs
    /\ ret = <<>>
    /\ WaitOff
    /\ desc = NoLayer
    /\ layer = Unfitted
    /\ call = "idle"
    /\ round = "none"
    /\ jobs = <<>>
    /\ jst = <<>>
    /\ P = BlankP(desc)
    /\ wlog = {}
    /\ cache = EmptyCache
    /\ result = [op |-> "none", exc |-> "none"]

NextFn ==
    \/ CallSliceArray
    \/ CallPredictFoldEst

SpecFn == InitFn /\ [][NextFn]_vars

(***************************************************************************)
(* Claims about the dependency wait, checked under SpecWait.  Time is       *)
(* counted from the consumer's first load attempt; t0 is the tick at which  *)
(* the file appears in the cache and t1 the tick at which it is complete.   *)
(***************************************************************************)

\* C2 (as stated): for a producer that writes the artifact in one piece at
\* tick t, the consumer ends ready if and only if t < 2*lim and ends in the
\* fatal timeout otherwise.
C2_SucceedsIffBelowTwiceLim ==
    (WaitDone /\ wcfg.t0 = wcfg.t1)
        => /\ cpc \in {"ready", "timedout"}
           /\ (cpc = "ready") <=> (wcfg.t1 < 2 * wcfg.lim)

\* C2 (amended): the threshold depends on the initial policy and is sharp
\* only up to the polling cycle.  With raise-on-failure initially disabled
\* the consumer never times out when the file appears by 2*lim - d and
\* always times out when it appears after 2*lim + 2*d, d the longest one
\* polling cycle lasts; with the policy initially enabled it never times out
\* when the file appears by lim - d and always times out when it appears
\* after lim + d.
C2_TimeoutThresholds ==
    WaitDone =>
        IF wcfg.raise0
        THEN /\ (wcfg.t0 <= wcfg.lim - SleepMax => cpc # "timedout")
             /\ (wcfg.t0 > wcfg.lim + SleepMax => cpc = "timedout")
        ELSE /\ (wcfg.t0 <= 2 * wcfg.lim - SleepMax => cpc # "timedout")
             /\ (wcfg.t0 > 2 * wcfg.lim + 2 * SleepMax => cpc = "timedout")

\* a consumer whose policy was disabled times out after its grace cycle
C2_Witness ==
    /\ cpc = "timedout"
    /\ ~wcfg.raise0
    /\ wcfg.t0 > 2 * wcfg.lim + 2 * SleepMax

\* C3: the first breach with raise-on-failure disabled warns, resets the
\* clock and enables the policy, and the next breach is fatal: at most one
\* warning is ever emitted, the clock stands at the warning's tick when the
\* policy is escalated, no breach is left standing after a check, a fatal
\* timeout of an initially disabled job follows exactly one warning, and an
\* initially enabled job never warns.
C3_OneGraceCycle ==
    /\ warnings <= 1
    /\ (warnings = 1 => ~wcfg.raise0 /\ raise_ /\ ts = warnedAt)
    /\ (warnings = 0 => raise_ = wcfg.raise0)
    /\ (cpc \in {"loop", "sleep", "load", "ready", "corrupt"}
            => ~LimFail(now, ts, wcfg.lim))
    /\ (cpc = "timedout"
            => /\ raise_
               /\ LimFail(now, ts, wcfg.lim)
               /\ warnings = IF wcfg.raise0 THEN 0 ELSE 1)

\* the job has warned once and then failed at the second breach
C3_Witness ==
    /\ cpc = "timedout"
    /\ warnings = 1
    /\ ts = warnedAt
    /\ now > 2 * wcfg.lim

\* C4 (as stated): a fit_est job never obtains a partially written
\* transformer artifact: it neither returns nor fails on a partial payload
\* (cpc = "corrupt": the load of the incomplete file has failed the job).
C4_NeverPartialPayload == cpc # "corrupt"

(***************************************************************************)
(* Claims about a layer's fit, predict and transform, checked under Spec.   *)
(* wlog holds the writes of the dispatches of the current call: <<r, c, i>> *)
(* says that job i wrote cell (r, c) of P.                                  *)
(***************************************************************************)

\* C1 (as stated): during a dispatch no two jobs write the same cell of the
\* prediction matrix.
C1_DisjointWrites ==
    \A w1, w2 \in wlog : (w1[1] = w2[1] /\ w1[2] = w2[2]) => w1[3] = w2[3]

\* C5 (as stated): within one fit cycle every cache file is written exactly
\* once, never overwritten.
C5_WrittenOnce == \A f \in DOMAIN cache : cache[f].n = 1

\* the fit call has come to its end
FitEnded == call = "idle" /\ result.op = "fit"

\* C6 (as stated): when the scorer raises inside the fit_est jobs, the fit
\* call that gets to dispatch them (dual mode) ends without raising.
C6_ScoringFailureNotFatal ==
    (FitEnded /\ desc.dual /\ desc.scorer = "raises") => result.exc = "ok"

\* the fold whose test rows hold row r
FoldOfRow(r) == (r \div FoldRows) + 1

\* C7: in a stack layer (test ranges partition the rows), when the fit call
\* has got through its estimator dispatch, every cell of every estimator's
\* column block has been written exactly once, and by the clone of that
\* estimator fitted for the fold the row belongs to, from that row of X.
C7_EveryRowOnce ==
    (FitEnded /\ desc.dual /\ desc.cls = "stack") =>
        \A rc \in DOMAIN P :
            /\ Cardinality({ w \in wlog : w[1] = rc[1] /\ w[2] = rc[2] }) = 1
            /\ P[rc] # <<>>
            /\ LET k == P[rc][1][1]
                   j == P[rc][1][2]
               IN  /\ P[rc][1][3] = FoldOfRow(rc[1])
                   /\ rc[2] = desc.width * EstPos(desc, k, j) + P[rc][3]
                   /\ P[rc][2] = rc[1]

\* a stack layer of two estimators, two columns each, has been fitted
C7_Witness ==
    /\ FitEnded
    /\ desc.dual
    /\ desc.cls = "stack"
    /\ desc.width = 2
    /\ NPred(desc) = 2
    /\ Cardinality(wlog) = NX * 4

\* C8: predict and transform, called on a layer that was never fitted or
\* whose fit left estimators_ empty, raise NotFittedError, dispatch no job
\* and leave the matrix, the layer and the cache as they were.
C8_NotFitted ==
    [][(/\ call = "idle"
        /\ result'.op \in {"predict", "transform"}
        /\ (~layer.fitted \/ Len(layer.estimators_) = 0))
       => /\ result'.exc = "NotFittedError"
          /\ call' = "idle"
          /\ UNCHANGED <<jobs, jst, P, wlog, layer, cache>>]_vars

\* transform has raised on a layer whose fit left estimators_ empty
C8_Witness ==
    /\ result = [op |-> "transform", exc |-> "NotFittedError"]
    /\ layer.fitted
    /\ layer.estimators_ = <<>>

\* C9: every job of fit gets the labels with the leading rows dropped, as
\* many as y has more than X: row r of them is row r + len(y) - len(X) of y
\* (y itself when y has no more rows than X).
C9_LabelsRealigned ==
    \A i \in 1..Len(jobs) :
        jobs[i].fn \in {"fit_trans", "fit_est", "_fit"} =>
            LET y == YGiven(desc)
                rebase == Len(y) - Len(XFit)
            IN  IF rebase > 0
                THEN /\ Len(jobs[i].y) = Len(XFit)
                     /\ \A r \in 1..Len(XFit) : jobs[i].y[r] = y[r + rebase]
                ELSE jobs[i].y = y

\* an estimator job has run with labels that were one row longer than X
C9_Witness ==
    /\ desc.yExtra = 1
    /\ \E i \in 1..Len(jobs) : jobs[i].fn = "fit_est" /\ jst[i] = "done"

\* job is the job of function fn for the entry e of estimators_, given the
\* pipeline that was fitted for e's case
JobOf(job, e, fn) ==
    /\ job.fn = fn
    /\ job.case = e.case
    /\ job.inst_name = e.name
    /\ job.est = e.inst
    /\ job.tei = e.idx.tei
    /\ job.col = e.idx.col
    /\ IF layer.preprocessing_.none THEN job.tr_list = <<>>
       ELSE /\ \E k \in 1..Len(layer.preprocessing_.v) :
                  /\ layer.preprocessing_.v[k].case = e.case
                  /\ layer.preprocessing_.v[k].tr = job.tr_list
            /\ job.tr_list[1].case = e.case

\* C10: predict dispatches one predict_est job for each of the first n_pred
\* entries of estimators_ (the full fits) and transform one predict_fold_est
\* job for each entry after them (the fold fits), each with the pipeline of
\* its own case.
C10_RetrievedJobs ==
    LET n_pred == NPred(desc)
        n_all == Len(layer.estimators_)
    IN  /\ call = "predict" =>
              /\ Len(jobs) = n_pred
              /\ \A m \in 1..n_pred :
                    /\ JobOf(jobs[m], layer.estimators_[m], "predict_est")
                    /\ jobs[m].tei.kind = "none"
        /\ call = "transform" =>
              /\ Len(jobs) = n_all - n_pred
              /\ \A m \in 1..(n_all - n_pred) :
                    /\ JobOf(jobs[m], layer.estimators_[n_pred + m],
                             "predict_fold_est")
                    /\ jobs[m].tei.kind # "none"

\* transform of a stack layer with two preprocessing cases has dispatched
\* its four fold jobs, and one of them has run
C10_Witness ==
    /\ call = "transform"
    /\ Len(desc.cases) = 2
    /\ Len(jobs) = 4
    /\ \E i \in 1..Len(jobs) : jst[i] = "done"

(***************************************************************************)
(* Claims about single functions, checked under SpecFn.                     *)
(***************************************************************************)
\* C11 (as stated): in predict_fold_est, when xtest has fewer rows than the
\* output matrix the rows addressed are the held-out indices decreased by the
\* difference of the row counts, and with equal row counts they are the
\* held-out indices themselves.
C11_ShiftedDownWhenFewer ==
    (arg.fn = "predict_fold_est" /\ ret # <<>>) =>
        LET nx == Len(arg.xtest)
            np == NP(arg.d)
            a == arg.job.tei.rs[1][1]
        IN  nx <= np =>
              /\ Len(ret.tei) = arg.job.tei.rs[1][2] - a
              /\ \A i \in 1..Len(ret.tei) : ret.tei[i] = (a + i - 1) - (np - nx)

\* C11 (amended): the rows addressed are the held-out indices minus (rows of
\* xtest - rows of the output matrix): decreased by the difference when xtest
\* has more rows than the matrix, unchanged when the counts are equal,
\* increased by it when xtest has fewer rows.
C11_ShiftedByRowsOfXMinusRowsOfP ==
    (arg.fn = "predict_fold_est" /\ ret # <<>>) =>
        LET nx == Len(arg.xtest)
            np == NP(arg.d)
            a == arg.job.tei.rs[1][1]
        IN  /\ Len(ret.tei) = arg.job.tei.rs[1][2] - a
            /\ nx > np => \A i \in 1..Len(ret.tei) :
                              ret.tei[i] = (a + i - 1) - (nx - np)
            /\ nx = np => \A i \in 1..Len(ret.tei) : ret.tei[i] = a + i - 1
            /\ nx < np => \A i \in 1..Len(ret.tei) :
                              ret.tei[i] = (a + i - 1) + (np - nx)

\* C11's case: xtest has more rows than the matrix and the prediction of the
\* held-out rows, which do not start at row 0, was written
C11_Witness ==
    /\ arg.fn = "predict_fold_est"
    /\ ret # <<>>
    /\ ret.err = ""
    /\ Len(arg.xtest) > NP(arg.d)
    /\ ret.tei[1] > 0
    /\ ret.rows = ret.tei

\* the rows of a at the index list ix
RowsAt(a, ix) == [i \in 1..Len(ix) |-> a[ix[i] + 1]]

\* C19: _slice_array, for a list of ranges as the indexer gives it (in
\* ascending order, not overlapping), takes the rows of X and of y at one and
\* the same index list, which is ascending and holds each index of each
\* range exactly once and no other; for one range (start, end) it takes the
\* rows start..end-1; for idx None it returns X and y as they are; y None
\* stays None.
C19_SliceRows ==
    (arg.fn = "_slice_array" /\ ret # <<>>) =>
        LET rs == arg.idx.rs
            ix == ret.idx
        IN  /\ arg.idx.kind = "list" =>
                  /\ \A i, j \in 1..Len(ix) : i < j => ix[i] < ix[j]
                  /\ \A k \in 1..Len(rs) : \A v \in rs[k][1]..(rs[k][2] - 1) :
                         Cardinality({ i \in 1..Len(ix) : ix[i] = v }) = 1
                  /\ \A i \in 1..Len(ix) : \E k \in 1..Len(rs) :
                         ix[i] \in rs[k][1]..(rs[k][2] - 1)
            /\ arg.idx.kind = "range" =>
                  /\ Len(ix) = rs[1][2] - rs[1][1]
                  /\ \A i \in 1..Len(ix) : ix[i] = rs[1][1] + i - 1
            /\ arg.idx.kind # "none" =>
                  /\ ret.x = RowsAt(arg.x, ix)
                  /\ ret.y = IF arg.y = <<>> THEN <<>> ELSE RowsAt(arg.y, ix)
            /\ arg.idx.kind = "none" =>
                  /\ ret.x = arg.x
                  /\ ret.y = arg.y

\* C19's case: labels given and a list of two ranges with rows left out
\* before, between and after them has been sliced
C19_Witness ==
    /\ arg.fn = "_slice_array"
    /\ ret # <<>>
    /\ arg.y # <<>>
    /\ arg.idx.kind = "list"
    /\ Len(arg.idx.rs) = 2
    /\ 0 < arg.idx.rs[1][1]
    /\ arg.idx.rs[1][1] < arg.idx.rs[1][2]
    /\ arg.idx.rs[1][2] < arg.idx.rs[2][1]
    /\ arg.idx.rs[2][1] < arg.idx.rs[2][2]
    /\ Len(ret.x) = Len(ret.y)
    /\ Len(ret.x) < Len(arg.x)

(***************************************************************************)
(* Claims about the modes of fit, checked under Spec.                       *)
(***************************************************************************)
\* C12: on a layer without preprocessing in combined mode (dual=False) every
\* fit ends with the exception of _wrap(None), and no job is ever dispatched:
\* no job list exists, nothing is written to the matrix or to the cache, and
\* the layer stays unfitted.
C12_CombinedWithoutPrepFails ==
    (~desc.dual /\ ~desc.prep) =>
        /\ call = "idle"
        /\ jobs = <<>>
        /\ jst = <<>>
        /\ wlog = {}
        /\ cache = EmptyCache
        /\ P = BlankP(desc)
        /\ layer = Unfitted
        /\ result.op = "fit" => result.exc = "TypeError"

\* C12's case: fit was called on such a layer, which has estimators
C12_Witness ==
    /\ ~desc.dual
    /\ ~desc.prep
    /\ NPred(desc) > 0
    /\ result = [op |-> "fit", exc |-> "TypeError"]

(***************************************************************************)
(* Claims about reassembly, checked under Spec.                             *)
(***************************************************************************)
\* the qualified name of an estimator: its name, after its case's if it
\* has one
QualifiedName(case, name) ==
    IF case = NoneCase THEN name ELSE case \o Sep2 \o name

\* C13 (as stated): when a dual-mode fit of a layer with folds and a scorer
\* that returns ends, it has not failed on a score key (ValueError from the
\* split, KeyError from an unknown name), and scores_ maps the qualified
\* name of every estimator to the aggregate of one value per fold.
C13_FoldScoresUnderPrimaryName ==
    (/\ result.op = "fit" /\ result.exc # "running"
     /\ desc.dual /\ desc.scorer = "ok" /\ desc.cls # "full") =>
        /\ result.exc = "ok"
        /\ layer.scores_.set
        /\ DOMAIN layer.scores_.v =
               { QualifiedName(desc.cases[k], desc.ests[k][j]) :
                    <<k, j>> \in { q \in (1..Len(desc.cases)) \X (1..MaxEsts) :
                                      q[2] <= Len(desc.ests[q[1]]) } }
        /\ \A n \in DOMAIN layer.scores_.v :
               layer.scores_.v[n].n = Len(FoldPairs(desc))

\* The jobs of a dispatch run one after the other in the order of the job
\* list, from job i on, with matrix m and cache c: the exception that ends
\* the dispatch, if any, and the matrix and the cache after it.
RECURSIVE InOrder(_, _, _, _, _)
InOrderAfter(d, js, i, c, r) ==
    IF r.err # "" THEN [err |-> r.err, m |-> <<>>, c |-> c]
    ELSE InOrder(d, js, i + 1, r.m, PickleSave(c, r.file, r.data))

InOrderEst(d, js, i, m, c) ==
    InOrderAfter(d, js, i, c,
                 FitEst(d, js[i], XFit, m,
                        IF d.prep THEN c[TransFile(js[i].case)].data ELSE <<>>))

InOrder(d, js, i, m, c) ==
    IF i > Len(js) THEN [err |-> "", m |-> m, c |-> c]
    ELSE IF js[i].inst_name = TransName
         THEN InOrder(d, js, i + 1, m,
                      PickleSave(c, TransFile(js[i].case), FitTrans(js[i], XFit).data))
    ELSE IF js[i].fn = "_fit" /\ ~(FitEstRequired \subseteq js[i].kw)
         THEN [err |-> "TypeError", m |-> m, c |-> c]
    ELSE InOrderEst(d, js, i, m, c)

\* what fit leaves when its jobs run in the order of the job list
InOrderOutcome(d, r) ==
    IF r.err # ""
    THEN [exc |-> r.err, layer |-> Unfitted]
    ELSE [exc |-> IF AssembleLayer(d, r.c, Unfitted).err = "" THEN "ok"
                  ELSE AssembleLayer(d, r.c, Unfitted).err,
          layer |-> AssembleLayer(d, r.c, Unfitted).layer, P |-> r.m]

InOrderFit(d) ==
    IF ~d.dual /\ WrapRaises(d)
    THEN [exc |-> "TypeError", layer |-> Unfitted]
    ELSE InOrderOutcome(d,
            InOrder(d, IF d.dual
                       THEN TransJobs(d, Realign(XFit, YGiven(d)))
                              \o EstJobs(d, Realign(XFit, YGiven(d)))
                       ELSE CombinedJobs(d, Realign(XFit, YGiven(d))),
                    1, BlankP(d), EmptyCache))

\* C14 (as stated): whatever the order in which the jobs of its dispatches
\* ran, a fit that has ended left what the run in job-list order leaves: the
\* same exception or none, the same estimators_, preprocessing_ and scores_,
\* and the same cells of the prediction matrix.
C14_OutcomeOfAnyOrder ==
    (call = "idle" /\ result.op = "fit") =>
        /\ result.exc = InOrderFit(desc).exc
        /\ layer = InOrderFit(desc).layer
        /\ result.exc = "ok" => P = InOrderFit(desc).P

\* every file reassembly loads holds what the job of its own entry saved
LoadsOwnArtifacts(d, c) ==
    /\ \A n \in 1..Len(d.t) :
           /\ c[TransFile(d.t[n].case)].data[1].case = d.t[n].case
           /\ c[TransFile(d.t[n].case)].data[1].tr = d.t[n].insts
    /\ \A n \in 1..Len(d.e) : \A j \in 1..Len(d.e[n].insts) :
           /\ c[EstFile(d.e[n].case, d.e[n].insts[j].name)].data.name
                 = d.e[n].insts[j].name
           /\ c[EstFile(d.e[n].case, d.e[n].insts[j].name)].data.inst.obj
                 = d.e[n].insts[j].obj

\* C15 (as stated): a step of fit that sets the layer's fitted state from
\* the cache is taken only when every job of the last dispatch has returned,
\* and then every file it loads is in the cache and holds what the job of
\* its own entry saved.
C15_ReassemblyAfterDispatch ==
    [][(call = "fit" /\ layer' # layer) =>
          /\ round \in {"est", "comb"}
          /\ \A i \in 1..Len(jst) : jst[i] = "done"
          /\ AssembleFilesThere(desc, cache)
          /\ LoadsOwnArtifacts(desc, cache)]_vars

\* C16: during a dual-mode fit of a layer with preprocessing the first
\* dispatch holds fit_trans jobs only and the second fit_est jobs only, and
\* from the start of the second on the transformer file of every fit_est
\* job's case is in the cache, written once and whole: the job's first
\* pickle_load in _load_trans returns and the wait loop is never entered.
C16_TransformersBeforeEstimators ==
    (desc.dual /\ desc.prep /\ call = "fit") =>
        /\ round \in {"trans", "est"}
        /\ round = "trans" =>
              \A i \in 1..Len(jobs) : jobs[i].fn = "fit_trans"
        /\ round = "est" =>
              \A i \in 1..Len(jobs) :
                  /\ jobs[i].fn = "fit_est"
                  /\ InCache(cache, TransFile(jobs[i].case))
                  /\ cache[TransFile(jobs[i].case)].data[1].case = jobs[i].case

\* C16's case: in the second dispatch one fit_est job has returned and
\* another has not started
C16_Witness ==
    /\ desc.dual
    /\ desc.prep
    /\ call = "fit"
    /\ round = "est"
    /\ \E i, j \in 1..Len(jobs) : jst[i] = "done" /\ jst[j] = "pending"

\* C18: the step in which a fit_est job without test rows (tei None) returns
\* changes no cell of the prediction matrix, and leaves in the job's cache
\* file an artifact whose index info is (None, the job's column id) and
\* whose score is None.
C18_FullFitWritesNoColumns ==
    [][\A i \in 1..Len(jst) :
          (/\ call = "fit" /\ jobs' = jobs
           /\ jst[i] = "pending" /\ jst'[i] = "done"
           /\ jobs[i].inst_name # TransName
           /\ jobs[i].tei.kind = "none") =>
              /\ P' = P
              /\ wlog' = wlog
              /\ InCache(cache', EstFile(jobs[i].case, jobs[i].inst_name))
              /\ cache'[EstFile(jobs[i].case, jobs[i].inst_name)].data.idx
                    = [tei |-> IdxNone,
                       col |-> ColLookup(desc, jobs[i].case, jobs[i].inst_name)]
              /\ cache'[EstFile(jobs[i].case, jobs[i].inst_name)].data.s.none]_vars

\* C18's case: in a layer with folds and a scorer, a full-data job has
\* returned after a fold's job had written its predictions
C18_Witness ==
    /\ call = "fit"
    /\ desc.scorer = "ok"
    /\ desc.cls # "full"
    /\ P # BlankP(desc)
    /\ \E i \in 1..Len(jst) :
          /\ jst[i] = "done"
          /\ jobs[i].fn = "fit_est"
          /\ jobs[i].tei.kind = "none"
          /\ cache[EstFile(jobs[i].case, jobs[i].inst_name)].data.s.none

\* the keywords a job's function is called with: _fit passes on those its
\* function's code object names
CalledWith(job) ==
    IF job.fn # "_fit" THEN job.kw
    ELSE IF job.inst_name = TransName THEN job.kw \cap FitTransVarnames
    ELSE job.kw \cap FitEstVarnames

\* C20 (as stated): on a layer with preprocessing, the jobs of the combined
\* dispatch call fit_trans and fit_est with the keywords of the dual-mode
\* rounds (attr among them for fit_est), and a combined fit that has ended
\* left what the dual-mode fit of the same layer leaves: no exception, the
\* same fitted layer, the same prediction matrix.
C20_CombinedAsDual ==
    (~desc.dual /\ desc.prep) =>
        /\ call = "fit" =>
              \A i \in 1..Len(jobs) :
                  CalledWith(jobs[i]) = IF jobs[i].inst_name = TransName
                                        THEN FitTransKw ELSE FitEstKw
        /\ (call = "idle" /\ result.op = "fit") =>
              /\ result.exc = InOrderFit([desc EXCEPT !.dual = TRUE]).exc
              /\ layer = InOrderFit([desc EXCEPT !.dual = TRUE]).layer
              /\ result.exc = "ok" =>
                    P = InOrderFit([desc EXCEPT !.dual = TRUE]).P

(***************************************************************************)
(* Claims about several waiting jobs of one dispatch, checked under         *)
(* SpecJobs.                                                                *)
(***************************************************************************)
\* a step changes job j's policy or wait clock only when j is at its own
\* load attempt or limit check, and then it changes no other job's frame
OwnPolicyAndClock(j) ==
    (jobs'[j].raise_ # jobs[j].raise_ \/ jobs'[j].ts # jobs[j].ts) =>
        /\ jobs[j].pc \in {"try", "check"}
        /\ \A k \in 1..NWaiters : k # j => jobs'[k] = jobs[k]

\* the step in which job j times out changes no other job's frame
OwnTimeout(j) ==
    (jobs'[j].pc = "timedout" /\ jobs[j].pc # "timedout") =>
        /\ jobs[j].pc = "check"
        /\ jobs[j].raise_
        /\ \A k \in 1..NWaiters : k # j => jobs'[k] = jobs[k]

C21_EndsReadyOrTimedOut ==
    /\ WaitDone => cpc \in {"ready", "timedout"}
    /\ warnings <= 1
    /\ ~WaitDone => now <= 2 * (wcfg.lim + SleepMax)

\* C24 (as stated): the step of _load_trans that raises the fatal timeout is
\* taken only when the transformer artifact is absent from the cache; an
\* artifact that appeared during the last sleep is loaded instead.
C24_TimeoutOnlyWhenAbsent ==
    [][(cpc = "check" /\ cpc' = "timedout") => ~PathExists(file)]_vars

(***************************************************************************)
(* Further claims about the layer, checked under Spec.                      *)
(***************************************************************************)
\* the (row, column) cells the fold-fit fit_est jobs of a fit of d write
\* (fit_est lines 475-498, for the jobs of lines 170-185)
FitWrote(d) ==
    LET js == EstJobs(d, Realign(XFit, YGiven(d)))
        r(i) == FitEst(d, js[i], XFit, BlankP(d), <<>>)
    IN  UNION { IF js[i].tei.kind # "none" /\ r(i).err = ""
                THEN { <<r(i).rows[k], c>> :
                          k \in 1..Len(r(i).rows),
                          c \in js[i].col..(js[i].col + d.width - 1) }
                ELSE {} : i \in 1..Len(js) }

\* a transform call on a fitted layer has come to its end
TransformEnded ==
    /\ call = "idle"
    /\ result.op = "transform"
    /\ result.exc # "NotFittedError"

\* C22 (as stated): a transform call with the X of fit and a matrix of the
\* shape of fit's returns normally and has written exactly the (row, column)
\* cells the fold-fit fit_est jobs wrote during fit.
C22_TransformWritesFitCells ==
    TransformEnded =>
        /\ result.exc = "ok"
        /\ { <<w[1], w[2]>> : w \in wlog } = FitWrote(desc)

\* entry m of estimators_ is the entry of the m-th fit_est job: its case,
\* and the name, the fitted instance and the column that job saved
EntryOfJob(entry, job) ==
    /\ entry.case = job.case
    /\ entry.name = job.inst_name
    /\ entry.inst.obj = job.inst
    /\ entry.idx.col = job.col

\* score m of the list _assemble returns is named after the m-th job
ScoreOfJob(sc, job) ==
    sc.k = (IF job.case = NoneCase THEN Sep3 ELSE job.case \o Sep3)
             \o job.inst_name

\* C23 (as stated): when the estimator dispatch of a fit returns with every
\* job done, whatever the order they ran in, reassembly leaves in
\* estimators_ one entry for each fit_est job, in the order of the job list,
\* and the score list has that length and order.
C23_OneEntryPerJob ==
    [][(call = "fit" /\ round = "est" /\ AllDone /\ call' = "idle") =>
          /\ Len(layer'.estimators_) = Len(jobs)
          /\ \A m \in 1..Len(jobs) :
                 EntryOfJob(layer'.estimators_[m], jobs[m])
          /\ Len(AssembleE(desc, cache).scores) = Len(jobs)
          /\ \A m \in 1..Len(jobs) :
                 ScoreOfJob(AssembleE(desc, cache).scores[m], jobs[m])]_vars

\* the job is a fit_est, dispatched as such or picked by _fit (line 512)
IsFitEst(job) ==
    \/ job.fn = "fit_est"
    \/ job.fn = "_fit" /\ job.inst_name # TransName

\* the job is a fit_trans, dispatched as such or picked by _fit (line 512)
IsFitTrans(job) ==
    \/ job.fn = "fit_trans"
    \/ job.fn = "_fit" /\ job.inst_name = TransName

\* every job a fit of d dispatches, lines 161-203
FitCycleJobs(d) ==
    IF d.dual
    THEN TransJobs(d, Realign(XFit, YGiven(d)))
           \o EstJobs(d, Realign(XFit, YGiven(d)))
    ELSE CombinedJobs(d, Realign(XFit, YGiven(d)))

\* the cycle cyc has a fit_trans job that saves the file job loads (lines
\* 443-445 and 458-463)
HasProducer(cyc, job) ==
    \E k \in 1..Len(cyc) :
        /\ IsFitTrans(cyc[k])
        /\ cyc[k].case = job.case
        /\ TransFile(cyc[k].case) = TransFile(job.case)

\* C25: during a fit of a layer with preprocessing, for every fit_est job of
\* the dispatch under way the fit cycle has a fit_trans job of the same case
\* that saves {case}__t, and that file either is in the cache already or its
\* fit_trans job is in the same dispatch and has not ended yet.
C25_EveryWaitHasAProducer ==
    (call = "fit" /\ desc.prep) =>
        \A i \in 1..Len(jobs) : IsFitEst(jobs[i]) =>
            /\ HasProducer(FitCycleJobs(desc), jobs[i])
            /\ \/ InCache(cache, TransFile(jobs[i].case))
               \/ \E k \in 1..Len(jobs) :
                      /\ IsFitTrans(jobs[k])
                      /\ jobs[k].case = jobs[i].case
                      /\ jst[k] = "pending"

\* C25's case: in a combined dispatch a fit_est job has not started, the
\* transformer file of its case is not in the cache yet, and the fit_trans
\* job of another case has already saved its file
C25_Witness ==
    /\ call = "fit"
    /\ desc.prep
    /\ round = "comb"
    /\ \E i, k \in 1..Len(jobs) :
           /\ IsFitEst(jobs[i])
           /\ jst[i] = "pending"
           /\ ~InCache(cache, TransFile(jobs[i].case))
           /\ IsFitTrans(jobs[k])
           /\ jst[k] = "done"

====
